---- MODULE Spec2Model ----
(***************************************************************************)
(* A model of site/app.js, the dashboard of the AI-SIM trading platform:   *)
(* the snapshot normalizers, the view state, the renderers, selectTicker   *)
(* and the asynchronous refresh.                                           *)
(*                                                                         *)
(* JavaScript values are records [k, n, d, s]: k is the kind ("undef",     *)
(* "null", "num", "nan", "str", "arr"), n/d the value of a number as the   *)
(* fraction n/d, s the characters of a string (one-character strings) or   *)
(* the elements of an array.  A JSON object is [k |-> "obj", f |-> fields],*)
(* fields being a function from the keys present to their values.          *)
(***************************************************************************)
EXTENDS Integers, Sequences, FiniteSets

VARIABLES
    state,          \* the global `state` object: prices, news, leaderboard, sectors, selected
    searchInput,    \* el("searchInput").value
    sectorFilter,   \* el("sectorFilter").value
    sectorOptions,  \* the <option> values of el("sectorFilter"), after "All sectors"
    watchlist,      \* el("watchlistTable") tbody: [placeholder, rows]
    watchlistMeta,  \* el("watchlistMeta").textContent: the row count shown
    newsList,       \* el("newsList"): [placeholder, items]
    leaderTable,    \* el("leaderTable") tbody: [placeholder, rows]
    subtitle,       \* el("subtitle").textContent
    detail,         \* the detail panel: title, meta, chips, stats, spark
    fTicker,        \* el("fTicker").value, the composer's ticker field
    pc,             \* per refresh invocation: "idle", "awaiting", "done"
    lastDone,       \* history: the refresh invocation that resumed last, its inputs and outcome
    lastOp,         \* history: the most recent event, and the ticker it selected
    input,          \* the raw value handed to the pure-function specifications
    output          \* what the function under check returned for `input`

vars == <<state, searchInput, sectorFilter, sectorOptions, watchlist, watchlistMeta,
          newsList, leaderTable, subtitle, detail, fTicker, pc, lastDone, lastOp,
          input, output>>

-----------------------------------------------------------------------------
(* JavaScript values *)

Undefined == [k |-> "undef", n |-> 0, d |-> 1, s |-> <<>>]
Null == [k |-> "null", n |-> 0, d |-> 1, s |-> <<>>]
NaN == [k |-> "nan", n |-> 0, d |-> 1, s |-> <<>>]
Num(x) == [k |-> "num", n |-> x, d |-> 1, s |-> <<>>]
Frac(x, y) == [k |-> "num", n |-> x, d |-> y, s |-> <<>>]
Str(chars) == [k |-> "str", n |-> 0, d |-> 1, s |-> chars]
Arr(elems) == [k |-> "arr", n |-> 0, d |-> 1, s |-> elems]
EmptyStr == Str(<<>>)

(* A JSON object, and the object literal {}. *)
Obj(fields) == [k |-> "obj", f |-> fields]
EmptyObject == Obj([key \in {} |-> Undefined])

\* r.key: undefined for a key the object lacks, and for every key of a number,
\* a string or an array (none of the keys read below is a property of those).
Get(r, key) == IF r.k = "obj" /\ key \in DOMAIN r.f THEN r.f[key] ELSE Undefined

\* r.key throws a TypeError when r is null (or undefined).
Throws(r) == r.k \in {"null", "undef"}

Nullish(x) == x.k \in {"undef", "null"}

\* a ?? b ?? c ...: the first operand that is neither undefined nor null, else the last.
RECURSIVE Coalesce(_)
Coalesce(xs) ==
    IF Len(xs) = 1 THEN xs[1]
    ELSE IF Nullish(xs[1]) THEN Coalesce(Tail(xs)) ELSE xs[1]

\* ToBoolean
Truthy(x) ==
    CASE x.k \in {"undef", "null", "nan"} -> FALSE
      [] x.k = "num" -> x.n # 0
      [] x.k = "str" -> x.s # <<>>
      [] OTHER -> TRUE

-----------------------------------------------------------------------------
(* Strings *)

Digits == {"0", "1", "2", "3", "4", "5", "6", "7", "8", "9"}
DigitVal(c) ==
    CASE c = "0" -> 0 [] c = "1" -> 1 [] c = "2" -> 2 [] c = "3" -> 3 [] c = "4" -> 4
      [] c = "5" -> 5 [] c = "6" -> 6 [] c = "7" -> 7 [] c = "8" -> 8 [] c = "9" -> 9

\* The UTF-16 code unit of each character of the model's alphabet.
CharCode(c) ==
    CASE c = " " -> 32 [] c = "\"" -> 34 [] c = "&" -> 38 [] c = "'" -> 39
      [] c = "0" -> 48 [] c = "1" -> 49 [] c = "2" -> 50 [] c = "3" -> 51 [] c = "4" -> 52
      [] c = "5" -> 53 [] c = "6" -> 54 [] c = "7" -> 55 [] c = "8" -> 56 [] c = "9" -> 57
      [] c = ";" -> 59 [] c = "<" -> 60 [] c = ">" -> 62 [] c = "#" -> 35
      [] c = "A" -> 65 [] c = "B" -> 66 [] c = "C" -> 67 [] c = "D" -> 68
      [] c = "N" -> 78 [] c = "X" -> 88
      [] c = "a" -> 97 [] c = "b" -> 98 [] c = "c" -> 99 [] c = "d" -> 100
      [] c = "e" -> 101 [] c = "f" -> 102 [] c = "g" -> 103 [] c = "i" -> 105 [] c = "l" -> 108 [] c = "m" -> 109 [] c = "o" -> 111
      [] c = "n" -> 110 [] c = "p" -> 112 [] c = "q" -> 113 [] c = "t" -> 116 [] c = "u" -> 117
      [] c = "x" -> 120

UpperChar(c) ==
    CASE c = "a" -> "A" [] c = "b" -> "B" [] c = "c" -> "C" [] c = "d" -> "D"
      [] c = "e" -> "E" [] c = "f" -> "F" [] c = "g" -> "G" [] c = "i" -> "I"
      [] c = "l" -> "L" [] c = "m" -> "M" [] c = "n" -> "N" [] c = "o" -> "O"
      [] c = "p" -> "P" [] c = "q" -> "Q" [] c = "t" -> "T" [] c = "u" -> "U"
      [] c = "x" -> "X"
      [] OTHER -> c

\* String.prototype.toUpperCase
toUpperCase(chars) == [i \in 1..Len(chars) |-> UpperChar(chars[i])]

\* String.prototype.trim
RECURSIVE TrimLeft(_)
TrimLeft(chars) ==
    IF chars # <<>> /\ chars[1] = " " THEN TrimLeft(Tail(chars)) ELSE chars
RECURSIVE TrimRight(_)
TrimRight(chars) ==
    IF chars # <<>> /\ chars[Len(chars)] = " "
    THEN TrimRight(SubSeq(chars, 1, Len(chars) - 1)) ELSE chars
trim(chars) == TrimRight(TrimLeft(chars))

\* String.prototype.includes
includes(hay, needle) ==
    \E i \in 0..(Len(hay) - Len(needle)) : SubSeq(hay, i + 1, i + Len(needle)) = needle

\* a > b on strings: lexicographic by code unit.
RECURSIVE StrGreater(_, _)
StrGreater(a, b) ==
    IF a = <<>> THEN FALSE
    ELSE IF b = <<>> THEN TRUE
    ELSE IF a[1] = b[1] THEN StrGreater(Tail(a), Tail(b))
    ELSE CharCode(a[1]) > CharCode(b[1])

RECURSIVE DecimalValue(_)
DecimalValue(chars) ==
    IF chars = <<>> THEN 0
    ELSE 10 * DecimalValue(SubSeq(chars, 1, Len(chars) - 1)) + DigitVal(chars[Len(chars)])

\* StringToNumber: white space is trimmed, the empty string is 0, a run of
\* digits is its value, anything else is NaN.
StringToNumber(chars) ==
    LET t == trim(chars) IN
    IF t = <<>> THEN Num(0)
    ELSE IF \A i \in 1..Len(t) : t[i] \in Digits THEN Num(DecimalValue(t))
    ELSE NaN

\* Number(x); an array converts through its join(","): [] is "", [v] is String(v).
RECURSIVE Number(_)
Number(x) ==
    CASE x.k = "undef" -> NaN
      [] x.k = "null" -> Num(0)
      [] x.k = "num" -> x
      [] x.k = "nan" -> NaN
      [] x.k = "str" -> StringToNumber(x.s)
      [] x.k = "arr" -> IF x.s = <<>> THEN Num(0)
                        ELSE IF Len(x.s) = 1 THEN Number(x.s[1]) ELSE NaN
      [] x.k = "obj" -> NaN

\* The global isFinite(x): Number(x) is neither NaN nor infinite.
isFinite(x) == Number(x).k = "num"

RECURSIVE DecimalDigits(_)
DecimalDigits(x) ==
    LET c == CHOOSE g \in Digits : DigitVal(g) = x % 10 IN
    IF x < 10 THEN <<c>> ELSE DecimalDigits(x \div 10) \o <<c>>

\* String(x), also what a template literal interpolates: a string is itself,
\* undefined and null are spelled out, a non-negative integer is its digits.
JsString(x) ==
    CASE x.k = "str" -> x.s
      [] x.k = "undef" -> <<"u", "n", "d", "e", "f", "i", "n", "e", "d">>
      [] x.k = "null" -> <<"n", "u", "l", "l">>
      [] x.k = "nan" -> <<"N", "a", "N">>
      [] x.k = "num" /\ x.d = 1 /\ x.n >= 0 -> DecimalDigits(x.n)

-----------------------------------------------------------------------------
(* Arithmetic on finite numbers n/d, d > 0 *)

NumSub(a, b) == Frac(a.n * b.d - b.n * a.d, a.d * b.d)
NumIsZero(a) == a.n = 0
NumGeqZero(a) == a.n >= 0
\* (a / b) * 100 for b # 0
NumPctOf(a, b) ==
    IF b.n > 0 THEN Frac(a.n * b.d * 100, a.d * b.n)
    ELSE Frac(0 - a.n * b.d * 100, a.d * (0 - b.n))

-----------------------------------------------------------------------------
(* Snapshot normalization *)

asArray(obj) ==
    IF obj.k = "arr" THEN obj.s
    ELSE IF Truthy(obj) /\ Get(obj, "data").k = "arr" THEN Get(obj, "data").s
    ELSE IF Truthy(obj) /\ Get(obj, "rows").k = "arr" THEN Get(obj, "rows").s
    ELSE IF Truthy(obj) /\ Get(obj, "items").k = "arr" THEN Get(obj, "items").s
    ELSE <<>>

\* isFinite(v) ? v : null, on a value that Number() returned
FiniteOrNull(v) == IF isFinite(v) THEN v ELSE Null

normalizePriceRow(r) ==
    LET ticker == Coalesce(<<Get(r, "ticker"), Get(r, "symbol"), Get(r, "sym"),
                             Get(r, "Ticker"), Get(r, "Symbol")>>)
        company == Coalesce(<<Get(r, "company_name"), Get(r, "company"), Get(r, "name"),
                              EmptyStr>>)
        sector == Coalesce(<<Get(r, "sector"), Get(r, "Sector"), EmptyStr>>)
        last == Number(Coalesce(<<Get(r, "close"), Get(r, "last"), Get(r, "price"),
                                  Get(r, "Close"), Get(r, "Last")>>))
        prev == Number(Coalesce(<<Get(r, "prev_close"), Get(r, "previous_close"),
                                  Get(r, "prev"), Get(r, "PrevClose")>>))
        volume == Number(Coalesce(<<Get(r, "volume"), Get(r, "vol"), Get(r, "Volume")>>))
        ts == Coalesce(<<Get(r, "timestamp"), Get(r, "time"), Get(r, "bar_time"),
                         Get(r, "date"), EmptyStr>>)
        chg == IF isFinite(last) /\ isFinite(prev) THEN NumSub(last, prev)
               ELSE IF isFinite(Get(r, "change")) THEN Number(Get(r, "change"))
               ELSE Null
        pctChg == IF chg # Null /\ isFinite(prev) /\ ~NumIsZero(prev)
                  THEN NumPctOf(chg, prev)
                  ELSE IF isFinite(Get(r, "pct_change")) THEN Number(Get(r, "pct_change"))
                  ELSE Null
        series == IF Get(r, "series").k = "arr" THEN Get(r, "series")
                  ELSE IF Get(r, "history").k = "arr" THEN Get(r, "history")
                  ELSE Null
    IN [ticker |-> ticker,
        company |-> company,
        sector |-> sector,
        last |-> FiniteOrNull(last),
        prev |-> FiniteOrNull(prev),
        chg |-> IF chg # Null /\ isFinite(chg) THEN chg ELSE Null,
        pctChg |-> IF pctChg # Null /\ isFinite(pctChg) THEN pctChg ELSE Null,
        volume |-> FiniteOrNull(volume),
        timestamp |-> ts,
        regime |-> Coalesce(<<Get(r, "regime"), EmptyStr>>),
        macro_headline |-> Coalesce(<<Get(r, "macro_headline"), EmptyStr>>),
        series |-> series,
        raw |-> r]

normalizeNewsRow(n) ==
    [ticker |-> Coalesce(<<Get(n, "ticker"), Get(n, "symbol"), EmptyStr>>),
     company |-> Coalesce(<<Get(n, "company_name"), EmptyStr>>),
     headline |-> Coalesce(<<Get(n, "headline"), Get(n, "title"), EmptyStr>>),
     timestamp |-> Coalesce(<<Get(n, "timestamp"), Get(n, "time"), Get(n, "date"), EmptyStr>>),
     eventType |-> Coalesce(<<Get(n, "event_type"), Get(n, "type"), EmptyStr>>),
     sentiment |-> Coalesce(<<Get(n, "sentiment"), EmptyStr>>),
     regime |-> Coalesce(<<Get(n, "regime"), EmptyStr>>),
     raw |-> n]

normalizeLeaderRow(r) ==
    [team |-> Coalesce(<<Get(r, "team"), Get(r, "Team"), EmptyStr>>),
     nav |-> Number(Coalesce(<<Get(r, "nav"), Get(r, "NAV"), Get(r, "value"), Get(r, "Value")>>)),
     cash |-> Number(Coalesce(<<Get(r, "cash"), Get(r, "Cash")>>)),
     realized_pnl |-> Number(Coalesce(<<Get(r, "realized_pnl"), Get(r, "RealizedPnL"),
                                        Get(r, "pnl"), Get(r, "PnL")>>))]

\* Array.prototype.map (Array.prototype.filter is SelectSeq)
Map(xs, F(_)) == [i \in 1..Len(xs) |-> F(xs[i])]

\* arr.map(normalize...) throws at the first element whose property read throws.
MapThrows(xs) == \E i \in 1..Len(xs) : Throws(xs[i])

-----------------------------------------------------------------------------
(* Formatting and escaping *)

\* The em dash shown for a missing value.
Dash == [fmt |-> "dash", digits |-> 0, v |-> Null]

\* fmtNum(x, digits): Number(x).toFixed(digits), or the dash. The digits of the
\* result are a function of (Number(x), digits), kept as that pair.
fmtNum(x, digits) ==
    IF x.k \in {"null", "undef"} \/ Number(x).k = "nan" THEN Dash
    ELSE [fmt |-> "toFixed", digits |-> digits, v |-> Number(x)]

\* fmtInt(x): Math.round(Number(x)).toLocaleString(), or the dash.
fmtInt(x) ==
    IF x.k \in {"null", "undef"} \/ Number(x).k = "nan" THEN Dash
    ELSE [fmt |-> "roundLocale", digits |-> 0, v |-> Number(x)]

EscapeChar(c) ==
    CASE c = "&" -> <<"&", "a", "m", "p", ";">>
      [] c = "<" -> <<"&", "l", "t", ";">>
      [] c = ">" -> <<"&", "g", "t", ";">>
      [] c = "\"" -> <<"&", "q", "u", "o", "t", ";">>
      [] c = "'" -> <<"&", "#", "0", "3", "9", ";">>
      [] OTHER -> <<c>>

RECURSIVE EscapeChars(_)
EscapeChars(chars) ==
    IF chars = <<>> THEN <<>> ELSE EscapeChar(chars[1]) \o EscapeChars(Tail(chars))

\* escapeHtml(s): String(s ?? "") with & < > " ' replaced by their entities.
escapeHtml(s) == EscapeChars(JsString(Coalesce(<<s, EmptyStr>>)))

\* a || b
OrElse(a, b) == IF Truthy(a) THEN a ELSE b

-----------------------------------------------------------------------------
(* Sorting: Array.prototype.sort is stable; each comparator is the source's. *)

NumGreater(a, b) == a.k = "num" /\ b.k = "num" /\ a.n * b.d > b.n * a.d

\* a > b: two strings compare by code unit, anything else as numbers.
JsGreater(a, b) ==
    IF a.k = "str" /\ b.k = "str" THEN StrGreater(a.s, b.s)
    ELSE NumGreater(Number(a), Number(b))

\* (a, b) => (a.ticker > b.ticker ? 1 : -1) is positive
WatchAfter(a, b) == JsGreater(a.ticker, b.ticker)
\* (a, b) => String(b.timestamp).localeCompare(String(a.timestamp)) is positive;
\* on the digit strings of the model the collation is the code-unit order.
NewsAfter(a, b) == StrGreater(JsString(b.timestamp), JsString(a.timestamp))
\* (a, b) => (b.nav - a.nav) is positive
LeaderAfter(a, b) == NumGreater(b.nav, a.nav)

Front(xs) == SubSeq(xs, 1, Len(xs) - 1)
Last(xs) == xs[Len(xs)]

RECURSIVE InsertWatch(_, _)
InsertWatch(ys, x) ==
    IF ys = <<>> THEN <<x>>
    ELSE IF WatchAfter(Last(ys), x) THEN InsertWatch(Front(ys), x) \o <<Last(ys)>>
    ELSE ys \o <<x>>
RECURSIVE SortWatch(_)
SortWatch(xs) == IF xs = <<>> THEN <<>> ELSE InsertWatch(SortWatch(Front(xs)), Last(xs))

RECURSIVE InsertNews(_, _)
InsertNews(ys, x) ==
    IF ys = <<>> THEN <<x>>
    ELSE IF NewsAfter(Last(ys), x) THEN InsertNews(Front(ys), x) \o <<Last(ys)>>
    ELSE ys \o <<x>>
RECURSIVE SortNews(_)
SortNews(xs) == IF xs = <<>> THEN <<>> ELSE InsertNews(SortNews(Front(xs)), Last(xs))

RECURSIVE InsertLeader(_, _)
InsertLeader(ys, x) ==
    IF ys = <<>> THEN <<x>>
    ELSE IF LeaderAfter(Last(ys), x) THEN InsertLeader(Front(ys), x) \o <<Last(ys)>>
    ELSE ys \o <<x>>
RECURSIVE SortLeader(_)
SortLeader(xs) == IF xs = <<>> THEN <<>> ELSE InsertLeader(SortLeader(Front(xs)), Last(xs))

\* [...set].sort(): the strings of a set in ascending code-unit order.
RECURSIVE SortStrings(_)
SortStrings(S) ==
    IF S = {} THEN <<>>
    ELSE LET m == CHOOSE x \in S : \A y \in S : ~StrGreater(JsString(x), JsString(y))
         IN <<m>> \o SortStrings(S \ {m})

-----------------------------------------------------------------------------
(* Renderers: each returns the new content of the element it rewrites. *)

\* A filter that searches the ticker and the company one at a time.
WatchlistShowsSeparately(r, q, sector) ==
    /\ Truthy(r.ticker)
    /\ (sector = <<>> \/ r.sector = Str(sector))
    /\ (q = <<>> \/ includes(toUpperCase(JsString(r.ticker)), q)
                 \/ includes(toUpperCase(JsString(r.company)), q))

\* The rows renderWatchlist keeps, in display order. q is the trimmed,
\* upper-cased search text; sector the value of the sector <select>.
WatchlistShows(r, q, sector) ==
    /\ Truthy(r.ticker)
    /\ (sector = <<>> \/ r.sector = Str(sector))
    /\ (q = <<>> \/
        includes(toUpperCase(JsString(r.ticker) \o <<" ">> \o JsString(r.company)), q))

WatchlistRows(prices, searchValue, sector) ==
    LET q == toUpperCase(trim(searchValue)) IN
    SortWatch(SelectSeq(prices, LAMBDA r : WatchlistShows(r, q, sector)))

ChgClass(chg) == IF chg = Null THEN "" ELSE IF NumGeqZero(chg) THEN "pos" ELSE "neg"
PctStr(pctChg) ==
    IF pctChg = Null THEN Dash ELSE [fmtNum(pctChg, 2) EXCEPT !.fmt = "toFixedPercent"]

\* One <tr> of the watchlist: the click handler's ticker, the two strings
\* interpolated into the markup of the first cell, and the numeric cells.
WatchlistRowHtml(r) ==
    [click |-> r.ticker,
     tickerHtml |-> JsString(r.ticker),
     subHtml |-> JsString(OrElse(r.company, OrElse(r.sector, EmptyStr))),
     last |-> IF r.last = Null THEN Dash ELSE fmtNum(r.last, 2),
     chg |-> IF r.chg = Null THEN Dash ELSE fmtNum(r.chg, 2),
     chgClass |-> ChgClass(r.chg),
     pct |-> PctStr(r.pctChg),
     volume |-> IF r.volume = Null THEN Dash ELSE fmtInt(r.volume)]

\* renderWatchlist: <<tbody, watchlistMeta>>; the early return on no rows
\* leaves watchlistMeta as it was.
renderWatchlist(prices, searchValue, sector, oldMeta) ==
    LET rows == WatchlistRows(prices, searchValue, sector) IN
    IF rows = <<>>
    THEN <<[placeholder |-> "No tickers found.", rows |-> <<>>], oldMeta>>
    ELSE <<[placeholder |-> "", rows |-> Map(rows, WatchlistRowHtml)], Len(rows)>>

LeaderRowHtml(r) ==
    [teamHtml |-> JsString(r.team),
     nav |-> IF isFinite(r.nav) THEN fmtNum(r.nav, 2) ELSE Dash,
     cash |-> IF isFinite(r.cash) THEN fmtNum(r.cash, 2) ELSE Dash,
     pnl |-> IF isFinite(r.realized_pnl) THEN fmtNum(r.realized_pnl, 2) ELSE Dash,
     pnlClass |-> IF isFinite(r.realized_pnl)
                  THEN (IF NumGeqZero(r.realized_pnl) THEN "pos" ELSE "neg") ELSE ""]

renderLeaderboard(leaderboard) ==
    LET rows == SortLeader(SelectSeq(leaderboard, LAMBDA r : Truthy(r.team))) IN
    IF rows = <<>>
    THEN [placeholder |-> "No leaderboard data yet.", rows |-> <<>>]
    ELSE [placeholder |-> "", rows |-> Map(rows, LeaderRowHtml)]

NewsTitle(n) ==
    IF Truthy(n.company)
    THEN JsString(n.ticker) \o <<" ", "(">> \o JsString(n.company) \o <<")">>
    ELSE JsString(n.ticker)

NewsItemHtml(n) ==
    [click |-> n.ticker,
     titleHtml |-> escapeHtml(Str(NewsTitle(n))),
     metaHtml |-> escapeHtml(OrElse(n.timestamp, EmptyStr)),
     typeHtml |-> escapeHtml(OrElse(n.eventType, EmptyStr)),
     regimeHtml |-> IF Truthy(n.regime) THEN escapeHtml(n.regime) ELSE <<>>,
     bodyHtml |-> escapeHtml(OrElse(n.headline, EmptyStr))]

renderNews(news) ==
    LET rows == SubSeq(news, 1, IF Len(news) < 50 THEN Len(news) ELSE 50) IN
    IF rows = <<>>
    THEN [placeholder |-> "No news yet.", items |-> <<>>]
    ELSE [placeholder |-> "", items |-> Map(rows, NewsItemHtml)]

\* fillSectorFilter: <<option values, value of the select>>. Setting the value
\* to a string that is no option leaves the select without a selection ("").
fillSectorFilter(sectors, current) ==
    LET opts == Map(SortStrings(sectors), JsString) IN
    <<opts, IF current = <<>> \/ \E i \in 1..Len(opts) : opts[i] = current
            THEN current ELSE <<>> >>

-----------------------------------------------------------------------------
(* selectTicker and the detail panel *)

\* a === b on the values a ticker can be
StrictEquals(a, b) == a = b /\ a.k # "nan"

\* state.prices.find(x => x.ticker === ticker): the index of the first match, 0 for none.
FindTicker(prices, ticker) ==
    IF \E i \in 1..Len(prices) : StrictEquals(prices[i].ticker, ticker)
    THEN CHOOSE i \in 1..Len(prices) :
            /\ StrictEquals(prices[i].ticker, ticker)
            /\ \A j \in 1..(i - 1) : ~StrictEquals(prices[j].ticker, ticker)
    ELSE 0

\* drawSpark: the series it plots, the row's finite history points or, with
\* fewer than two of them, 24 copies of the last price (100 when unknown).
\* The path geometry is a function of this series alone.
drawSpark(r) ==
    LET pts == IF r.series.k = "arr" /\ Len(r.series.s) > 0
               THEN SelectSeq(Map(r.series.s, Number), isFinite) ELSE <<>>
    IN IF Len(pts) >= 2 THEN pts
       ELSE [i \in 1..24 |-> Number(Coalesce(<<r.last, Num(100)>>))]

prefillTradeForm(ticker) == IF Truthy(ticker) THEN JsString(ticker) ELSE <<>>

DetailTitle(r) ==
    IF Truthy(r.company)
    THEN JsString(r.ticker) \o <<" ", "(">> \o JsString(r.company) \o <<")">>
    ELSE JsString(r.ticker)

DetailOf(r) ==
    [title |-> DetailTitle(r),
     meta |-> (IF Truthy(r.timestamp) THEN <<[label |-> "", text |-> JsString(r.timestamp)]>>
               ELSE <<>>)
              \o (IF Truthy(r.macro_headline)
                  THEN <<[label |-> "Macro: ", text |-> JsString(r.macro_headline)]>>
                  ELSE <<>>),
     chipSector |-> IF Truthy(r.sector) THEN JsString(r.sector) ELSE <<"-">>,
     chipRegime |-> IF Truthy(r.regime) THEN JsString(r.regime) ELSE <<"-">>,
     statLast |-> IF r.last = Null THEN Dash ELSE fmtNum(r.last, 2),
     statChg |-> IF r.chg = Null THEN Dash ELSE fmtNum(r.chg, 2),
     statClass |-> ChgClass(r.chg),
     statPct |-> PctStr(r.pctChg),
     statVol |-> IF r.volume = Null THEN Dash ELSE fmtInt(r.volume),
     spark |-> drawSpark(r)]

\* selectTicker without its early return: the missing row is stored and the
\* composer is prefilled all the same.
selectTickerUnguarded(view, ticker) ==
    LET i == FindTicker(view.prices, ticker) IN
    IF i = 0 THEN [view EXCEPT !.selected = Null, !.fTicker = prefillTradeForm(ticker)]
    ELSE [view EXCEPT !.selected = view.prices[i],
                      !.detail = DetailOf(view.prices[i]),
                      !.fTicker = prefillTradeForm(view.prices[i].ticker)]

\* selectTicker(ticker) on view = [prices, selected, detail, fTicker]: nothing
\* changes when no price row has the ticker.
selectTicker(view, ticker) ==
    LET i == FindTicker(view.prices, ticker) IN
    IF i = 0 THEN view
    ELSE [view EXCEPT !.selected = view.prices[i],
                      !.detail = DetailOf(view.prices[i]),
                      !.fTicker = prefillTradeForm(view.prices[i].ticker)]

CurrentView == [prices |-> state.prices, selected |-> state.selected,
                detail |-> detail, fTicker |-> fTicker]

\* The page before any script has written to it.
StaticDetail ==
    [title |-> <<>>, meta |-> <<>>, chipSector |-> <<"-">>, chipRegime |-> <<"-">>,
     statLast |-> Dash, statChg |-> Dash, statClass |-> "", statPct |-> Dash,
     statVol |-> Dash, spark |-> <<>>]

-----------------------------------------------------------------------------
(* Bounds and the snapshots the fetches can return *)

\* Refresh invocations that can be in flight at once.
MaxOverlap == 2
\* Largest price, previous close or volume in a generated raw record.
MaxRawNum == 2
\* Longest search text typed in the search box.
MaxSearchLen == 3

Invocations == 1..MaxOverlap

RowA(c) == Obj([ticker |-> Str(<<"A">>), company_name |-> Str(<<"a", "b">>),
                sector |-> Str(<<"X">>), close |-> Num(c), prev_close |-> Num(1),
                volume |-> Num(5), timestamp |-> Str(<<"1">>),
                series |-> Arr(<<Num(1), Str(<<"x">>), Num(c)>>)])
RowB == Obj([symbol |-> Str(<<"B">>), company |-> Str(<<"<", "b", ">">>),
             last |-> Str(<<"2">>)])
RowNoTicker == Obj([close |-> Num(1)])

PricePayloads ==
    { Arr(<<>>),
      Arr(<<RowA(1)>>),
      Obj([data |-> Arr(<<RowB, RowA(2), RowNoTicker>>)]) }

NewsA == Obj([ticker |-> Str(<<"A">>), headline |-> Str(<<"<", "a", ">">>),
              timestamp |-> Str(<<"1">>)])
NewsC == Obj([symbol |-> Str(<<"C">>), company_name |-> Str(<<"c", "&">>),
              title |-> Str(<<"x">>), date |-> Str(<<"2">>), regime |-> Str(<<"'">>)])
NewsNoTicker == Obj([headline |-> Str(<<"x">>)])

NewsPayloads ==
    { Arr(<<NewsA, NewsC>>),
      Obj([rows |-> Arr(<<NewsNoTicker, Null>>)]) }

LeaderA == Obj([team |-> Str(<<"<", "a", ">">>), nav |-> Num(1), cash |-> Num(2)])
LeaderB == Obj([Team |-> Str(<<"B">>), NAV |-> Num(2), pnl |-> Num(0 - 1)])

LeaderPayloads ==
    { Obj([items |-> Arr(<<LeaderA, LeaderB, Num(5)>>)]) }

\* How one fetchJson call can end.
Outcomes == {"ok", "network", "http", "parse"}

\* The bodies a resource can deliver under an outcome (none unless it is "ok").
Bodies(outcome, payloads) == IF outcome = "ok" THEN payloads ELSE {Undefined}

-----------------------------------------------------------------------------
(* refresh *)

\* fetchJson(url): the parsed body, or a rejection (fetch rejected, the
\* status was not ok, or the body did not parse).
fetchJson(outcome, body) ==
    IF outcome = "ok" THEN [rejected |-> FALSE, value |-> body]
    ELSE [rejected |-> TRUE, value |-> Undefined]

\* fetchJson(...).catch(() => ({}))
CatchEmpty(result) == IF result.rejected THEN EmptyObject ELSE result.value

PArr(pRaw) == SelectSeq(Map(asArray(pRaw), normalizePriceRow), LAMBDA r : Truthy(r.ticker))
NArr(nRaw) == SortNews(Map(asArray(nRaw), normalizeNewsRow))
LArr(lRaw) == Map(asArray(lRaw), normalizeLeaderRow)
SectorsOf(pArr) == {pArr[i].sector : i \in {j \in 1..Len(pArr) : Truthy(pArr[j].sector)}}

\* The three map(normalize...) calls throw before anything is assigned.
NormalizationThrows(pRaw, nRaw, lRaw) ==
    MapThrows(asArray(pRaw)) \/ MapThrows(asArray(nRaw)) \/ MapThrows(asArray(lRaw))

\* any?.timestamp || any?.raw?.timestamp || ""
SubtitleOf(pArr) ==
    LET ts == IF pArr = <<>> THEN EmptyStr
              ELSE OrElse(pArr[1].timestamp, OrElse(Get(pArr[1].raw, "timestamp"), EmptyStr))
    IN IF Truthy(ts) THEN [text |-> "Latest bar: ", arg |-> JsString(ts)]
       ELSE [text |-> "Latest bar: (not available yet)", arg |-> <<>>]

\* Lines 412-418: auto-select the first row when nothing is selected, then
\* re-select the selected ticker if the new prices still have it.
RefreshSelection(view) ==
    LET v1 == IF view.selected = Null /\ view.prices # <<>>
              THEN selectTicker(view, view.prices[1].ticker) ELSE view
        still == IF v1.selected = Null THEN 0 ELSE FindTicker(v1.prices, v1.selected.ticker)
    IN IF still # 0 THEN selectTicker(v1, v1.prices[still].ticker) ELSE v1

Init ==
    /\ state = [prices |-> <<>>, news |-> <<>>, leaderboard |-> <<>>, sectors |-> {},
                selected |-> Null]
    /\ searchInput = <<>>
    /\ sectorFilter = <<>>
    /\ sectorOptions = <<>>
    /\ watchlist = [placeholder |-> "static", rows |-> <<>>]
    /\ watchlistMeta = 0
    /\ newsList = [placeholder |-> "static", items |-> <<>>]
    /\ leaderTable = [placeholder |-> "static", rows |-> <<>>]
    /\ subtitle = [text |-> "static", arg |-> <<>>]
    /\ detail = StaticDetail
    /\ fTicker = <<>>
    \* wireUI(); refresh(): the first invocation is already awaiting its fetches
    /\ pc = [i \in Invocations |->
                [at |-> IF i = 1 THEN "awaiting" ELSE "idle", overlapped |-> FALSE]]
    /\ lastDone = [n |-> 0, ok |-> <<FALSE, FALSE, FALSE>>,
                   body |-> <<Undefined, Undefined, Undefined>>,
                   threw |-> FALSE, overlapped |-> FALSE]
    /\ lastOp = [op |-> "load", found |-> FALSE]
    /\ input = Undefined
    /\ output = Undefined

\* A click on refreshBtn: refresh() runs to its await.
StartRefresh(i) ==
    /\ pc[i].at = "idle"
    /\ LET others == \E j \in Invocations : j # i /\ pc[j].at = "awaiting" IN
       pc' = [j \in Invocations |->
                IF j = i THEN [at |-> "awaiting", overlapped |-> others]
                ELSE IF pc[j].at = "awaiting" THEN [pc[j] EXCEPT !.overlapped = TRUE]
                ELSE pc[j]]
    /\ lastOp' = [op |-> "start", found |-> FALSE]
    /\ UNCHANGED <<state, searchInput, sectorFilter, sectorOptions, watchlist, watchlistMeta,
                   newsList, leaderTable, subtitle, detail, fTicker, lastDone, input, output>>

\* The try block after the await, for the three raw values.
RefreshTry(pRaw, nRaw, lRaw) ==
    LET pArr == PArr(pRaw)
        nArr == NArr(nRaw)
        lArr == LArr(lRaw)
        sectors == SectorsOf(pArr)
        fill == fillSectorFilter(sectors, sectorFilter)
        wl == renderWatchlist(pArr, searchInput, fill[2], watchlistMeta)
        view == RefreshSelection([prices |-> pArr, selected |-> state.selected,
                                  detail |-> detail, fTicker |-> fTicker])
    IN /\ state' = [prices |-> pArr, news |-> nArr, leaderboard |-> lArr,
                    sectors |-> sectors, selected |-> view.selected]
       /\ sectorOptions' = fill[1]
       /\ sectorFilter' = fill[2]
       /\ watchlist' = wl[1]
       /\ watchlistMeta' = wl[2]
       /\ newsList' = renderNews(nArr)
       /\ leaderTable' = renderLeaderboard(lArr)
       /\ subtitle' = SubtitleOf(pArr)
       /\ detail' = view.detail
       /\ fTicker' = view.fTicker

\* The catch block: the status line and the three placeholders.
RefreshCatch ==
    /\ subtitle' = [text |-> "Error loading snapshots: ", arg |-> <<>>]
    /\ watchlist' = [placeholder |-> "No snapshot files found yet. Run one exchange tick.",
                     rows |-> <<>>]
    /\ newsList' = [placeholder |-> "No news snapshot yet.", items |-> <<>>]
    /\ leaderTable' = [placeholder |-> "No leaderboard snapshot yet.", rows |-> <<>>]
    /\ UNCHANGED <<state, sectorOptions, sectorFilter, watchlistMeta, detail, fTicker>>

\* The joint await of invocation i completes: every fetch has settled (with an
\* outcome of outs), each rejection was replaced by {}, and the rest of refresh
\* runs without suspending.
ResumeRefresh(i, outs) ==
    /\ pc[i].at = "awaiting"
    /\ \E op \in outs, on \in outs, ol \in outs :
       \E bp \in Bodies(op, PricePayloads), bn \in Bodies(on, NewsPayloads),
          bl \in Bodies(ol, LeaderPayloads) :
         LET pRaw == CatchEmpty(fetchJson(op, bp))
             nRaw == CatchEmpty(fetchJson(on, bn))
             lRaw == CatchEmpty(fetchJson(ol, bl))
             threw == NormalizationThrows(pRaw, nRaw, lRaw)
         IN /\ IF threw THEN RefreshCatch ELSE RefreshTry(pRaw, nRaw, lRaw)
            /\ lastDone' = [n |-> 1, ok |-> <<op = "ok", on = "ok", ol = "ok">>,
                            body |-> <<bp, bn, bl>>, threw |-> threw,
                            overlapped |-> pc[i].overlapped]
    /\ pc' = [pc EXCEPT ![i] = [at |-> "idle", overlapped |-> FALSE]]
    /\ lastOp' = [op |-> "resume", found |-> FALSE]
    /\ UNCHANGED <<searchInput, input, output>>

\* A call selectTicker(ticker) from an event handler.
DoSelect(op, ticker) ==
    LET view == selectTicker(CurrentView, ticker) IN
    /\ state' = [state EXCEPT !.selected = view.selected]
    /\ detail' = view.detail
    /\ fTicker' = view.fTicker
    /\ lastOp' = [op |-> op, found |-> FindTicker(state.prices, ticker) # 0]
    /\ UNCHANGED <<searchInput, sectorFilter, sectorOptions, watchlist, watchlistMeta,
                   newsList, leaderTable, subtitle, pc, lastDone, input, output>>

\* A click on the j-th watchlist row.
ClickWatchlistRow(j) ==
    /\ j \in 1..Len(watchlist.rows)
    /\ DoSelect("clickRow", watchlist.rows[j].click)

\* A click on the j-th news item: if (n.ticker) selectTicker(n.ticker).
ClickNewsItem(j) ==
    /\ j \in 1..Len(newsList.items)
    /\ Truthy(newsList.items[j].click)
    /\ DoSelect("clickNews", newsList.items[j].click)

\* An input event on the search box, then renderWatchlist.
InputSearch(text) ==
    /\ text # searchInput
    /\ searchInput' = text
    /\ LET wl == renderWatchlist(state.prices, text, sectorFilter, watchlistMeta) IN
       watchlist' = wl[1] /\ watchlistMeta' = wl[2]
    /\ lastOp' = [op |-> "search", found |-> FALSE]
    /\ UNCHANGED <<state, sectorFilter, sectorOptions, newsList, leaderTable, subtitle,
                   detail, fTicker, pc, lastDone, input, output>>

\* A change event on the sector <select>: one of its options, or "All sectors".
ChangeSector(k) ==
    /\ k \in 0..Len(sectorOptions)
    /\ LET value == IF k = 0 THEN <<>> ELSE sectorOptions[k]
           wl == renderWatchlist(state.prices, searchInput, value, watchlistMeta)
       IN /\ value # sectorFilter
          /\ sectorFilter' = value
          /\ watchlist' = wl[1]
          /\ watchlistMeta' = wl[2]
    /\ lastOp' = [op |-> "sector", found |-> FALSE]
    /\ UNCHANGED <<state, searchInput, sectorOptions, newsList, leaderTable, subtitle,
                   detail, fTicker, pc, lastDone, input, output>>

-----------------------------------------------------------------------------
(* The page: overlapping refreshes whose fetches succeed, and clicks. *)

Next ==
    \/ \E i \in Invocations : StartRefresh(i)
    \/ \E i \in Invocations : ResumeRefresh(i, {"ok"})
    \/ \E j \in 1..Len(watchlist.rows) : ClickWatchlistRow(j)
    \/ \E j \in 1..Len(newsList.items) : ClickNewsItem(j)

Spec == Init /\ [][Next]_vars

(* The fetches: one refresh after another, every fetch ending in any outcome. *)

NextFetch ==
    \/ StartRefresh(1)
    \/ ResumeRefresh(1, Outcomes)

SpecFetch == Init /\ [][NextFetch]_vars

(* The watchlist: the refresh of the page load, then typing in the search box
   and choosing a sector. *)

SearchAlphabet == {"a", "b", " "}
SearchTexts == UNION {[1..n -> SearchAlphabet] : n \in 0..MaxSearchLen}

NextWatch ==
    \/ ResumeRefresh(1, {"ok"})
    \/ \E text \in SearchTexts : InputSearch(text)
    \/ \E k \in 0..Len(sectorOptions) : ChangeSector(k)

SpecWatch == Init /\ [][NextWatch]_vars

(* normalizePriceRow alone, on raw records whose numeric fields take every
   kind of value. *)

RawValues == {Undefined, Null, EmptyStr, Str(<<"x">>)} \cup {Num(n) : n \in 0..MaxRawNum}
RawKeys == {"close", "Last", "prev_close", "volume", "change", "pct_change"}
RawPriceRecords == {Obj(f) : f \in [RawKeys -> RawValues]}

InitNorm ==
    /\ state = [prices |-> <<>>, news |-> <<>>, leaderboard |-> <<>>, sectors |-> {},
                selected |-> Null]
    /\ searchInput = <<>>
    /\ sectorFilter = <<>>
    /\ sectorOptions = <<>>
    /\ watchlist = [placeholder |-> "static", rows |-> <<>>]
    /\ watchlistMeta = 0
    /\ newsList = [placeholder |-> "static", items |-> <<>>]
    /\ leaderTable = [placeholder |-> "static", rows |-> <<>>]
    /\ subtitle = [text |-> "static", arg |-> <<>>]
    /\ detail = StaticDetail
    /\ fTicker = <<>>
    /\ pc = [i \in Invocations |-> [at |-> "idle", overlapped |-> FALSE]]
    /\ lastDone = [n |-> 0, ok |-> <<FALSE, FALSE, FALSE>>,
                   body |-> <<Undefined, Undefined, Undefined>>,
                   threw |-> FALSE, overlapped |-> FALSE]
    /\ lastOp = [op |-> "load", found |-> FALSE]
    /\ input \in RawPriceRecords
    /\ output = Undefined

\* One call normalizePriceRow(input).
NormalizeInput ==
    /\ output = Undefined
    /\ output' = normalizePriceRow(input)
    /\ UNCHANGED <<state, searchInput, sectorFilter, sectorOptions, watchlist, watchlistMeta,
                   newsList, leaderTable, subtitle, detail, fTicker, pc, lastDone, lastOp,
                   input>>

NextNorm == NormalizeInput

SpecNorm == InitNorm /\ [][NextNorm]_vars

-----------------------------------------------------------------------------
(* Claims *)

HasTicker(prices, ticker) == \E i \in 1..Len(prices) : prices[i].ticker = ticker

\* C1: whenever a row is selected, its ticker is the ticker of a row of
\* state.prices; a refresh that drops the selected ticker does not leave the
\* selection pointing at it.
C1_SelectionInPrices ==
    state.selected # Null => HasTicker(state.prices, state.selected.ticker)

\* The selection the replace policy asks for: the selected ticker's new row if
\* the new prices have it, else the row with the smallest ticker, else none.
C2Policy(before, prices, after) ==
    IF before # Null /\ HasTicker(prices, before.ticker)
    THEN after = prices[FindTicker(prices, before.ticker)]
    ELSE IF prices # <<>>
    THEN /\ after # Null
         /\ HasTicker(prices, after.ticker)
         /\ \A j \in 1..Len(prices) : ~JsGreater(after.ticker, prices[j].ticker)
    ELSE after = Null

\* C2: a refresh that replaces the collections keeps the selected ticker if the
\* new prices have it (now with the new row), otherwise selects the row with the
\* smallest ticker, and clears the selection when there are no prices.
C2_ReplacePolicy ==
    [][(lastOp'.op = "resume" /\ ~lastDone'.threw)
        => C2Policy(state.selected, state'.prices, state'.selected)]_vars

\* The raw value refresh received for resource k of the last resumed invocation.
LastRaw(k) == IF lastDone.ok[k] THEN lastDone.body[k] ELSE EmptyObject

\* C3: after a refresh, each resource whose fetch failed has an empty
\* collection, each resource whose fetch succeeded has its body normalized and
\* stored, and the catch path is taken only when a fetched body makes
\* normalization throw, never because a fetch failed.
C3_FetchIsolation ==
    lastOp.op = "resume" =>
        /\ state.prices = (IF lastDone.ok[1] THEN PArr(lastDone.body[1]) ELSE <<>>)
        /\ state.news = (IF lastDone.ok[2] THEN NArr(lastDone.body[2]) ELSE <<>>)
        /\ state.leaderboard = (IF lastDone.ok[3] THEN LArr(lastDone.body[3]) ELSE <<>>)
        /\ (lastDone.threw =>
               \E k \in 1..3 : lastDone.ok[k] /\ MapThrows(asArray(lastDone.body[k])))

\* C4: after a refresh whose prices fetch failed, the subtitle is not the text
\* of a successful refresh that returned no price rows.
C4_StatusReportsPricesFailure ==
    (lastOp.op = "resume" /\ ~lastDone.ok[1]) => subtitle # SubtitleOf(<<>>)

\* C5: once overlapping refresh invocations have all finished, the four
\* collections are the normalized result of the invocation that resumed last.
C5_LastCompletedWins ==
    (lastDone.n = 1 /\ lastDone.overlapped /\ \A i \in Invocations : pc[i].at = "idle") =>
        /\ state.prices = PArr(LastRaw(1))
        /\ state.news = NArr(LastRaw(2))
        /\ state.leaderboard = LArr(LastRaw(3))
        /\ state.sectors = SectorsOf(PArr(LastRaw(1)))

\* The tickers a caller can pass: priced ones, unpriced ones, and no ticker.
C6Tickers == {Str(<<"A">>), Str(<<"B">>), Str(<<"C">>), Str(<<"D">>), EmptyStr,
              Undefined, Null, Num(0)}

\* C6: in every reachable state, selectTicker(t) for a ticker t that no row of
\* state.prices has leaves state.selected, the detail panel and the composer's
\* ticker field as they are.
C6_AbsentTickerNoEffect ==
    \A t \in C6Tickers :
        ~HasTicker(state.prices, t) =>
            LET view == selectTicker(CurrentView, t) IN
            /\ view.selected = state.selected
            /\ view.detail = detail
            /\ view.fTicker = fTicker

\* C6 witness: a news item whose ticker has no price row was clicked while a
\* row was selected and the composer was prefilled.
C6_Witness ==
    /\ lastOp.op = "clickNews" /\ ~lastOp.found
    /\ state.selected # Null /\ fTicker # <<>> /\ state.prices # <<>>

\* A raw value that is a number, or a string that parses to one.
ParsesToNumber(v) ==
    \/ v.k = "num"
    \/ v.k = "str" /\ trim(v.s) # <<>> /\ \A i \in 1..Len(trim(v.s)) : trim(v.s)[i] \in Digits

\* The raw value the documented alias order resolves for a field.
Resolved(r, aliases) == Coalesce([i \in 1..Len(aliases) |-> Get(r, aliases[i])])

\* C7: normalizePriceRow gives a numeric field a value only when the raw value
\* behind it parsed to a finite number; an absent, null, empty or non-numeric
\* raw value gives null, never 0.
C7_UnknownNeverZero ==
    output # Undefined =>
        LET hasLast == ParsesToNumber(Resolved(input, <<"close", "last", "price", "Close", "Last">>))
            hasPrev == ParsesToNumber(Resolved(input, <<"prev_close", "previous_close", "prev", "PrevClose">>))
            hasVolume == ParsesToNumber(Resolved(input, <<"volume", "vol", "Volume">>))
            hasChange == (hasLast /\ hasPrev) \/ ParsesToNumber(Get(input, "change"))
        IN /\ output.last # Null => hasLast
           /\ output.prev # Null => hasPrev
           /\ output.volume # Null => hasVolume
           /\ output.chg # Null => hasChange
           /\ output.pctChg # Null =>
                 (hasChange /\ hasPrev) \/ ParsesToNumber(Get(input, "pct_change"))

\* C8: no refresh takes the catch path: fetch failures are caught one by one,
\* and normalization raises for no element of a snapshot array.
C8_NormalizationNeverRaises ==
    lastOp.op = "resume" =>
        /\ ~lastDone.threw
        /\ subtitle.text # "Error loading snapshots: "

Entities == {<<"&", "a", "m", "p", ";">>, <<"&", "l", "t", ";">>, <<"&", "g", "t", ";">>,
             <<"&", "q", "u", "o", "t", ";">>, <<"&", "#", "0", "3", "9", ";">>}

\* Markup in which a snapshot text cannot open a tag, close one, end an
\* attribute or start an entity of its own.
IsEscaped(html) ==
    \A i \in 1..Len(html) :
        /\ html[i] \notin {"<", ">", "\"", "'"}
        /\ html[i] = "&" =>
              \E e \in Entities : i + Len(e) - 1 <= Len(html) /\ SubSeq(html, i, i + Len(e) - 1) = e

\* C9: every snapshot text that a renderer interpolates into markup, in the
\* watchlist, the leaderboard and the news, has been escaped.
C9_AllTextEscaped ==
    /\ \A j \in 1..Len(watchlist.rows) :
          IsEscaped(watchlist.rows[j].tickerHtml) /\ IsEscaped(watchlist.rows[j].subHtml)
    /\ \A j \in 1..Len(leaderTable.rows) : IsEscaped(leaderTable.rows[j].teamHtml)
    /\ \A j \in 1..Len(newsList.items) :
          /\ IsEscaped(newsList.items[j].titleHtml)
          /\ IsEscaped(newsList.items[j].metaHtml)
          /\ IsEscaped(newsList.items[j].typeHtml)
          /\ IsEscaped(newsList.items[j].regimeHtml)
          /\ IsEscaped(newsList.items[j].bodyHtml)

\* The tickers of the rows the watchlist shows, and that a step just rendered it.
ShownTickers == {watchlist.rows[j].click : j \in 1..Len(watchlist.rows)}
WatchlistJustRendered ==
    lastOp.op \in {"search", "sector"} \/ (lastOp.op = "resume" /\ ~lastDone.threw)
SearchKey == toUpperCase(trim(searchInput))
SectorAllows(r) == sectorFilter = <<>> \/ r.sector = Str(sectorFilter)

====
